---- MODULE Spec2Model ----
(***************************************************************************)
(* Session lifecycle, daily cap and daily aggregates of the gym log        *)
(* (gym_app/models.py, serializers.py, views.py, maintenance.py).          *)
(*                                                                         *)
(* Time is counted in whole seconds since 00:00:00 UTC of day 0.  The      *)
(* store is the table of GymSession rows (a sequence, the row id being the *)
(* index) and the table of DailyGymStats rows keyed by (student, date).    *)
(***************************************************************************)
EXTENDS Integers, Sequences, FiniteSets, TLC

(***************************************************************************)
(* Bounds of the model.                                                    *)
(***************************************************************************)
MaxSessions == 2
\* Request handlers that may run at the same time.
MaxRequests == 2
\* Sessions in the store while the administrator acts on it.
MaxAdminSessions == 1
\* Rows of gym_students the registrations may create.
MaxStudents == 2

(***************************************************************************)
(* Program constants.                                                      *)
(***************************************************************************)
\* check_out_time = None (models.py: null=True)
NULL == -1
\* no session id (QuerySet.first() returning None)
NoSession == 0
\* max_daily_minutes = 120 (GymSession.can_check_in)
MaxDailyMinutes == 120
\* timedelta(hours=2), in seconds
MaxDuration == 2 * 60 * 60
SecondsPerMinute == 60
SecondsPerDay == 24 * 60 * 60

\* Registered, active students; "nobody" is an id / RFID no student holds.
Students == {"s1", "s2"}
Unknown == "nobody"
Callers == Students \cup {Unknown}
Reqs == 1..MaxRequests

\* A row of gym_students (models.Student): the fields the uniqueness rules
\* and the duplicate merge read.
StudentRow(id, sid, rfid, registered) ==
    [id |-> id, student_id |-> sid, rfid |-> rfid,
     registration_date |-> registered]

\* The rows of the registered students.
RegisteredStudents ==
    <<StudentRow(1, "s1", "rfid-s1", 0), StudentRow(2, "s2", "rfid-s2", 0)>>

\* GYMLOG_MAINT_LAST_RUN is not set in the environment.
NeverRun == -1

\* UTC offsets (seconds) of settings.TIME_ZONE, which is deployment
\* configuration: UTC (the framework default) and Asia/Manila.  Datetimes are
\* timezone-aware (maintenance.py subtracts an aware end-of-day from
\* check_in_time), so timezone.now().date() is the UTC date while
\* _end_of_day() is taken in the configured zone.
TimeZones == {0, 8 * 60 * 60}

\* The instants at which the clock is read (seconds since day 0, 00:00 UTC):
\* day 0 09:00:00, 09:32:45, 11:32:45, 20:34:32, 23:30:00; day 1 09:00:00.
Instants == {32400, 34365, 41565, 74072, 84600, 118800}
FirstInstant == CHOOSE t \in Instants : \A u \in Instants : t <= u

VARIABLES
    clock,      \* timezone.now(), seconds
    tzOffset,   \* UTC offset of timezone.get_current_timezone()
    sessions,   \* gym_sessions table: sequence of rows, id = index
    stats,      \* gym_daily_stats table: function on a set of <<student, date>>
    last,       \* outcome of the last operation
    reqs,       \* requests in flight: the position of each request handler
    gym_students,   \* gym_students table: sequence of rows, id = index
    maintLastRun    \* os.environ["GYMLOG_MAINT_LAST_RUN"] of the process

vars == <<clock, tzOffset, sessions, stats, last, reqs, gym_students,
          maintLastRun>>

(***************************************************************************)
(* Date and time helpers.                                                  *)
(***************************************************************************)
Min(a, b) == IF a <= b THEN a ELSE b
Max(a, b) == IF a >= b THEN a ELSE b

\* int(x / y) of Python for y > 0: rounds toward zero.
TruncDiv(x, y) == IF x >= 0 THEN x \div y ELSE -((-x) \div y)

\* timezone.now().date(): the UTC calendar date of an aware datetime.
DateOf(t) == t \div SecondsPerDay

\* maintenance._end_of_day(d): 23:59:59 of d in the current time zone.
EndOfDay(d) == d * SecondsPerDay + (SecondsPerDay - 1) - tzOffset

(***************************************************************************)
(* GymSession rows.                                                        *)
(***************************************************************************)
NewSession(s, checkIn, d) ==
    [student |-> s, check_in_time |-> checkIn, check_out_time |-> NULL,
     duration_minutes |-> 0, date |-> d, is_active |-> TRUE]

\* Variant: the duration is rounded to the nearest minute.
SavedRow_Rounded(row) ==
    IF row.check_out_time # NULL
    THEN [row EXCEPT !.duration_minutes =
                         TruncDiv(row.check_out_time - row.check_in_time + 30,
                                  SecondsPerMinute),
                     !.is_active = FALSE]
    ELSE row

\* GymSession.save(): the row as written, duration derived from the times.
SavedRow(row) ==
    IF row.check_out_time # NULL
    THEN [row EXCEPT !.duration_minutes =
                         TruncDiv(row.check_out_time - row.check_in_time,
                                  SecondsPerMinute),
                     !.is_active = FALSE]
    ELSE row

\* duration_minutes is a PositiveIntegerField: the database rejects a
\* negative value (IntegrityError).
RowAccepted(row) == row.duration_minutes >= 0

Ids(ss) == DOMAIN ss

\* Variant: the active-session lookup also filters on today's date.
ActiveSessions_TodayOnly(ss, s) ==
    {i \in Ids(ss) : /\ ss[i].student = s
                     /\ ss[i].is_active
                     /\ ss[i].date = DateOf(clock)}

\* GymSession.objects.filter(student=student, is_active=True)
ActiveSessions(ss, s) ==
    {i \in Ids(ss) : ss[i].student = s /\ ss[i].is_active}

\* Meta.ordering = ['-check_in_time']: the rows .first() may return.
FirstOf(ss, I) ==
    {i \in I : \A j \in I : ss[j].check_in_time <= ss[i].check_in_time}

\* filter(student=student, date=date, check_out_time__isnull=False)
CompletedOn(ss, s, d) ==
    {i \in Ids(ss) : /\ ss[i].student = s
                     /\ ss[i].date = d
                     /\ ss[i].check_out_time # NULL}

RECURSIVE SumDuration(_, _)
SumDuration(ss, I) ==
    IF I = {} THEN 0
    ELSE LET i == CHOOSE x \in I : TRUE
         IN  ss[i].duration_minutes + SumDuration(ss, I \ {i})

\* GymSession.get_daily_gym_time(student, date)
get_daily_gym_time(ss, s, d) == SumDuration(ss, CompletedOn(ss, s, d))

\* Variant: a student with exactly 0 minutes left may still check in.
can_check_in_Inclusive(ss, s, d) ==
    IF ActiveSessions(ss, s) # {}
    THEN <<FALSE, 0>>
    ELSE LET remaining == MaxDailyMinutes - get_daily_gym_time(ss, s, d)
         IN  <<remaining >= 0, Max(0, remaining)>>

\* GymSession.can_check_in(student, date): <<can_check_in, remaining>>
can_check_in(ss, s, d) ==
    IF ActiveSessions(ss, s) # {}
    THEN <<FALSE, 0>>
    ELSE LET remaining == MaxDailyMinutes - get_daily_gym_time(ss, s, d)
         IN  <<remaining > 0, Max(0, remaining)>>

(***************************************************************************)
(* DailyGymStats rows.                                                     *)
(***************************************************************************)
\* Variant: the totals are added to the row instead of overwriting it.
update_daily_stats_Adding(st, ss, s, d) ==
    LET done == CompletedOn(ss, s, d)
        old  == IF <<s, d>> \in DOMAIN st THEN st[<<s, d>>]
                ELSE [total_sessions |-> 0, total_minutes |-> 0]
        row  == [total_sessions |-> old.total_sessions + 1,
                 total_minutes  |-> old.total_minutes + SumDuration(ss, done)]
    IN  [k \in DOMAIN st \cup {<<s, d>>} |->
            IF k = <<s, d>> THEN row ELSE st[k]]

\* Variant: the recomputation counts every session of the date, open or not.
update_daily_stats_CountingOpen(st, ss, s, d) ==
    LET done == {i \in Ids(ss) : ss[i].student = s /\ ss[i].date = d}
        row  == [total_sessions |-> Cardinality(done),
                 total_minutes  |-> SumDuration(ss, done)]
    IN  [k \in DOMAIN st \cup {<<s, d>>} |->
            IF k = <<s, d>> THEN row ELSE st[k]]

\* DailyGymStats.update_daily_stats(student, date): update_or_create.
update_daily_stats(st, ss, s, d) ==
    LET done == CompletedOn(ss, s, d)
        row  == [total_sessions |-> Cardinality(done),
                 total_minutes  |-> SumDuration(ss, done)]
    IN  [k \in DOMAIN st \cup {<<s, d>>} |->
            IF k = <<s, d>> THEN row ELSE st[k]]

NoStats == [k \in {} |-> [total_sessions |-> 0, total_minutes |-> 0]]

(***************************************************************************)
(* Outcome of an operation: what the caller (or the log) sees.             *)
(***************************************************************************)
Outcome(op, who, status, detail, sid, touched) ==
    [op |-> op, student |-> who, status |-> status, detail |-> detail,
     sid |-> sid, touched |-> touched]

\* A request slot no handler is running in.
IdleReq == [pc |-> "idle", op |-> "", student |-> Unknown, seen |-> NoSession]

Init ==
    /\ reqs = [r \in Reqs |-> IdleReq]
    /\ clock = FirstInstant
    /\ tzOffset \in TimeZones
    /\ gym_students = RegisteredStudents
    /\ maintLastRun = NeverRun
    /\ sessions = << >>
    /\ stats = NoStats
    /\ last = Outcome("init", Unknown, "ok", "", NoSession, {})

\* Time passes between two operations.
Tick ==
    /\ \E t \in Instants : t > clock /\ clock' = t
    /\ last' = Outcome("tick", Unknown, "ok", "", NoSession, {})
    /\ UNCHANGED <<tzOffset, gym_students, maintLastRun, sessions, stats, reqs>>

(***************************************************************************)
(* CheckInOutSerializer.validate and GymCheckInOutView.post.               *)
(***************************************************************************)
\* Variant: the lookup drops the is_active filter (the student's latest row).
PickActive_AnyRow(ss, s) ==
    LET mine == {i \in Ids(ss) : ss[i].student = s}
    IN  IF mine = {} THEN {NoSession} ELSE FirstOf(ss, mine)

\* .filter(student=student, is_active=True).first(): a row id or NoSession.
PickActive(ss, s) ==
    IF ActiveSessions(ss, s) = {} THEN {NoSession}
    ELSE FirstOf(ss, ActiveSessions(ss, s))

\* CheckInOutSerializer.validate: "" when the request is valid, else the
\* error raised; a is the active session validate found.
ValidationError(ss, who, action, a, today) ==
    IF who \notin Students THEN "student_not_found"
    ELSE IF action = "check_in"
         THEN IF a # NoSession THEN "already_checked_in"
              ELSE IF ~can_check_in(ss, who, today)[1] THEN "daily_limit"
              ELSE ""
         ELSE IF a = NoSession THEN "not_checked_in"
              ELSE ""

\* active_session.check_out_time = now; active_session.save()
CheckedOutRow(row, now) == SavedRow([row EXCEPT !.check_out_time = now])

\* The check-out branch shared by the endpoint and the RFID tap: save the
\* row, then recompute the aggregate of (student, session.date).
DoCheckOut(op, who, a) ==
    LET row == CheckedOutRow(sessions[a], clock)
    IN  IF RowAccepted(row)
        THEN /\ sessions' = [sessions EXCEPT ![a] = row]
             /\ stats' = update_daily_stats(stats, sessions', who, row.date)
             /\ last' = Outcome(op, who, "ok", "checked_out", a, {a})
        ELSE /\ UNCHANGED <<sessions, stats>>
             /\ last' = Outcome(op, who, "error", "server_error", NoSession, {})

\* Variant: a check-in reuses the student's row of that date when there is
\* one (update_or_create on (student, date) instead of create).
DoCheckIn_Reusing(op, who, checkIn, d) ==
    LET mine == {i \in Ids(sessions) :
                    sessions[i].student = who /\ sessions[i].date = d}
    IN  IF mine = {}
        THEN /\ Len(sessions) < MaxSessions
             /\ sessions' = Append(sessions, NewSession(who, checkIn, d))
             /\ UNCHANGED stats
             /\ last' = Outcome(op, who, "ok", "checked_in", Len(sessions) + 1,
                                {Len(sessions) + 1})
        ELSE \E i \in mine :
                /\ sessions' = [sessions EXCEPT ![i] = NewSession(who, checkIn, d)]
                /\ UNCHANGED stats
                /\ last' = Outcome(op, who, "ok", "checked_in", i, {i})

\* GymSession.objects.create(student, check_in_time, date)
DoCheckIn(op, who, checkIn, d) ==
    /\ Len(sessions) < MaxSessions
    /\ sessions' = Append(sessions, NewSession(who, checkIn, d))
    /\ UNCHANGED stats
    /\ last' = Outcome(op, who, "ok", "checked_in", Len(sessions) + 1,
                       {Len(sessions) + 1})

Reject(op, who, err) ==
    /\ UNCHANGED <<sessions, stats>>
    /\ last' = Outcome(op, who, "error", err, NoSession, {})

\* Variant: a check-in of a checked-in student closes the open session
\* first and then opens a new one.
CheckIn_ClosingFirst(who) ==
    /\ Len(sessions) < MaxSessions
    /\ \E a \in PickActive(sessions, who) :
         IF who \notin Students
         THEN Reject("check_in", who, "student_not_found")
         ELSE LET closed == IF a = NoSession THEN sessions
                            ELSE [sessions EXCEPT
                                     ![a] = CheckedOutRow(sessions[a], clock)]
              IN  /\ sessions' = Append(closed,
                                        NewSession(who, clock, DateOf(clock)))
                  /\ stats' = IF a = NoSession THEN stats
                              ELSE update_daily_stats(stats, sessions', who,
                                                      sessions[a].date)
                  /\ last' = Outcome("check_in", who, "ok", "checked_in",
                                     Len(sessions) + 1, {Len(sessions) + 1})
    /\ UNCHANGED <<clock, tzOffset, gym_students, maintLastRun, reqs>>

\* POST /gym/checkinout with action = check_in
CheckIn(who) ==
    /\ \E a \in PickActive(sessions, who) :
         LET err == ValidationError(sessions, who, "check_in", a, DateOf(clock))
         IN  IF err # "" THEN Reject("check_in", who, err)
             ELSE DoCheckIn("check_in", who, clock, DateOf(clock))
    /\ UNCHANGED <<clock, tzOffset, gym_students, maintLastRun, reqs>>

\* POST /gym/checkinout with action = check_out
CheckOut(who) ==
    /\ \E a \in PickActive(sessions, who) :
         LET err == ValidationError(sessions, who, "check_out", a, DateOf(clock))
         IN  IF err # "" THEN Reject("check_out", who, err)
             ELSE DoCheckOut("check_out", who, a)
    /\ UNCHANGED <<clock, tzOffset, gym_students, maintLastRun, reqs>>

(***************************************************************************)
(* StudentLoginView.post: the RFID tap.                                    *)
(***************************************************************************)
\* Variant: the tap opens a session even when the daily limit is reached.
RfidTap_IgnoringLimit(who) ==
    /\ IF who \notin Students
       THEN Reject("rfid_tap", who, "rfid_not_recognized")
       ELSE \E a \in PickActive(sessions, who) :
              IF a # NoSession
              THEN DoCheckOut("rfid_tap", who, a)
              ELSE DoCheckIn("rfid_tap", who, clock, DateOf(clock))
    /\ UNCHANGED <<clock, tzOffset, gym_students, maintLastRun, reqs>>

\* active session: check out; none: check in when can_check_in allows it.
RfidTap(who) ==
    /\ IF who \notin Students
       THEN Reject("rfid_tap", who, "rfid_not_recognized")
       ELSE \E a \in PickActive(sessions, who) :
              IF a # NoSession
              THEN DoCheckOut("rfid_tap", who, a)
              ELSE IF ~can_check_in(sessions, who, DateOf(clock))[1]
                   THEN Reject("rfid_tap", who, "daily_limit")
                   ELSE DoCheckIn("rfid_tap", who, clock, DateOf(clock))
    /\ UNCHANGED <<clock, tzOffset, gym_students, maintLastRun, reqs>>

(***************************************************************************)
(* maintenance.py: stale-close, the capper, run_daily_maintenance.         *)
(* Each routine runs in one transaction.atomic() block: a database error   *)
(* on one row rolls the whole block back and leaves the routine by an      *)
(* exception.  A run is a record [sessions, stats, ok, touched].           *)
(***************************************************************************)
\* The rows of I in the order of check_in_time (ties by id).
RECURSIVE ByCheckIn(_, _)
ByCheckIn(ss, I) ==
    IF I = {} THEN << >>
    ELSE LET i == CHOOSE x \in I : \A y \in I :
                     \/ ss[x].check_in_time < ss[y].check_in_time
                     \/ ss[x].check_in_time = ss[y].check_in_time /\ x <= y
         IN  <<i>> \o ByCheckIn(ss, I \ {i})

Reversed(q) == [k \in 1..Len(q) |-> q[Len(q) + 1 - k]]

StartRun(ss, st) == [sessions |-> ss, stats |-> st, ok |-> TRUE, touched |-> {}]

\* Write one row and recompute its aggregate; a rejected row aborts the run.
WriteRow(run, i, row) ==
    IF RowAccepted(row)
    THEN LET ss == [run.sessions EXCEPT ![i] = row]
         IN  [sessions |-> ss,
              stats    |-> update_daily_stats(run.stats, ss, row.student, row.date),
              ok       |-> TRUE,
              touched  |-> run.touched \cup {i}]
    ELSE [run EXCEPT !.ok = FALSE]

\* Variant: the queryset also takes the open sessions dated today.
StaleSessions_IncludingToday(ss, today) ==
    {i \in Ids(ss) : /\ ss[i].is_active
                     /\ ss[i].check_out_time = NULL
                     /\ ss[i].date <= today}

\* The queryset of close_stale_sessions_before_today.
StaleSessions(ss, today) ==
    {i \in Ids(ss) : /\ ss[i].is_active
                     /\ ss[i].check_out_time = NULL
                     /\ ss[i].date < today}

\* new_checkout = min(check_in + 2h, end of the session's date)
StaleCheckout(row) ==
    Min(row.check_in_time + MaxDuration, EndOfDay(row.date))

\* The body of the stale-close loop for one row, up to session.save().
StaleClosedRow(row) ==
    LET new_checkout == StaleCheckout(row)
        minutes == (new_checkout - row.check_in_time) \div SecondsPerMinute
    IN  SavedRow([row EXCEPT !.check_out_time = new_checkout,
                             !.duration_minutes = Max(0, minutes),
                             !.is_active = FALSE])

RECURSIVE CloseStaleLoop(_, _)
CloseStaleLoop(run, q) ==
    IF q = << >> \/ ~run.ok THEN run
    ELSE CloseStaleLoop(
             WriteRow(run, Head(q), StaleClosedRow(run.sessions[Head(q)])),
             Tail(q))

\* Variant: a failed run restores the sessions but keeps the aggregate rows
\* it had already recomputed.
RolledBack_KeepingStats(ss, st, run) ==
    IF run.ok THEN run
    ELSE [sessions |-> ss, stats |-> run.stats, ok |-> FALSE, touched |-> {}]

RolledBack(ss, st, run) ==
    IF run.ok THEN run
    ELSE [sessions |-> ss, stats |-> st, ok |-> FALSE, touched |-> {}]

close_stale_sessions_before_today(ss, st, today) ==
    RolledBack(ss, st,
        CloseStaleLoop(StartRun(ss, st),
                       Reversed(ByCheckIn(ss, StaleSessions(ss, today)))))

\* The queryset of cap_sessions_on_previous_days_to_two_hours.
PreviousDaySessions(ss, today) == {i \in Ids(ss) : ss[i].date < today}

\* actual_checkout - check_in_time, an open row counted to the end of its day
ActualDuration(row) ==
    (IF row.check_out_time # NULL THEN row.check_out_time
                                  ELSE EndOfDay(row.date)) - row.check_in_time

\* Variant: only rows without a check-out are considered overlong.
IsOverlong_OpenOnly(row) ==
    row.check_out_time = NULL /\ ActualDuration(row) > MaxDuration

\* Variant: a session of exactly two hours is capped as well.
IsOverlong_Inclusive(row) == ActualDuration(row) >= MaxDuration

\* Variant: the capper closes every session that has no check-out.
IsOverlong_AnyOpen(row) ==
    row.check_out_time = NULL \/ ActualDuration(row) > MaxDuration

IsOverlong(row) == ActualDuration(row) > MaxDuration

\* Variant: the capper sets the duration but not the capped check-out.
CappedRow_DurationOnly(row) ==
    SavedRow([row EXCEPT !.duration_minutes = MaxDuration \div SecondsPerMinute,
                         !.is_active = FALSE])

\* The body of the capper loop for an overlong row, up to session.save().
CappedRow(row) ==
    SavedRow([row EXCEPT !.check_out_time = row.check_in_time + MaxDuration,
                         !.duration_minutes = MaxDuration \div SecondsPerMinute,
                         !.is_active = FALSE])

RECURSIVE CapLoop(_, _)
CapLoop(run, q) ==
    IF q = << >> \/ ~run.ok THEN run
    ELSE LET row == run.sessions[Head(q)]
         IN  CapLoop(IF IsOverlong(row)
                     THEN WriteRow(run, Head(q), CappedRow(row))
                     ELSE run,
                     Tail(q))

cap_sessions_on_previous_days_to_two_hours(ss, st, today) ==
    RolledBack(ss, st,
        CapLoop(StartRun(ss, st), ByCheckIn(ss, PreviousDaySessions(ss, today))))

\* Variant: the daily maintenance runs the capper only.
run_daily_maintenance_CapperOnly(ss, st, today) ==
    cap_sessions_on_previous_days_to_two_hours(ss, st, today)

\* run_daily_maintenance: stale-close, then (unless it raised) the capper.
run_daily_maintenance(ss, st, today) ==
    LET closed == close_stale_sessions_before_today(ss, st, today)
    IN  IF ~closed.ok THEN closed
        ELSE LET capped == cap_sessions_on_previous_days_to_two_hours(
                               closed.sessions, closed.stats, today)
             IN  IF capped.ok
                 THEN [capped EXCEPT !.touched = closed.touched \cup capped.touched]
                 ELSE [capped EXCEPT !.sessions = closed.sessions,
                                     !.stats = closed.stats,
                                     !.touched = closed.touched]

Finish(op, run) ==
    /\ sessions' = run.sessions
    /\ stats' = run.stats
    /\ last' = Outcome(op, Unknown, IF run.ok THEN "ok" ELSE "error",
                       IF run.ok THEN "" ELSE "integrity_error",
                       NoSession, run.touched)

\* manage.py close_stale_sessions
CloseStale ==
    /\ Finish("close_stale",
              close_stale_sessions_before_today(sessions, stats, DateOf(clock)))
    /\ UNCHANGED <<clock, tzOffset, gym_students, maintLastRun, reqs>>

\* manage.py cap_previous_days
CapPreviousDays ==
    /\ Finish("cap_previous_days",
              cap_sessions_on_previous_days_to_two_hours(sessions, stats,
                                                         DateOf(clock)))
    /\ UNCHANGED <<clock, tzOffset, gym_students, maintLastRun, reqs>>

\* GymAppConfig.ready() running the daily maintenance
DailyMaintenance ==
    /\ Finish("daily_maintenance",
              run_daily_maintenance(sessions, stats, DateOf(clock)))
    /\ UNCHANGED <<clock, tzOffset, gym_students, maintLastRun, reqs>>

Next ==
    \/ Tick
    \/ \E who \in Callers : CheckIn(who)
    \/ \E who \in Callers : CheckOut(who)
    \/ \E who \in Callers : RfidTap(who)
    \/ CloseStale
    \/ CapPreviousDays
    \/ DailyMaintenance

Spec == Init /\ [][Next]_vars

(***************************************************************************)
(* The same handlers with their database reads and writes as separate      *)
(* steps.  Neither view holds a lock, select_for_update or a uniqueness    *)
(* constraint on the active session, so the steps of two requests          *)
(* interleave freely (one worker per request).                             *)
(***************************************************************************)
\* Serializer / first lines of the view: the reads.  The handler then holds
\* the active session it saw and the branch it decided on.
ReadStep(r, op, who) ==
    /\ reqs[r].pc = "idle"
    /\ \E a \in PickActive(sessions, who) :
         LET err == IF op = "check_in"
                    THEN ValidationError(sessions, who, "check_in", a,
                                         DateOf(clock))
                    ELSE IF a # NoSession THEN ""
                    ELSE IF ~can_check_in(sessions, who, DateOf(clock))[1]
                         THEN "daily_limit"
                         ELSE ""
             branch == IF a # NoSession THEN "save" ELSE "create"
         IN  IF err # ""
             THEN /\ last' = Outcome(op, who, "error", err, NoSession, {})
                  /\ UNCHANGED reqs
             ELSE /\ reqs' = [reqs EXCEPT ![r] =
                                 [pc |-> branch, op |-> op, student |-> who,
                                  seen |-> a]]
                  /\ UNCHANGED last
    /\ UNCHANGED <<clock, tzOffset, gym_students, maintLastRun, sessions, stats>>

\* GymSession.objects.create(...) of a handler that saw no active session.
CreateStep(r) ==
    /\ reqs[r].pc = "create"
    /\ Len(sessions) < MaxSessions
    /\ sessions' = Append(sessions,
                          NewSession(reqs[r].student, clock, DateOf(clock)))
    /\ last' = Outcome(reqs[r].op, reqs[r].student, "ok", "checked_in",
                       Len(sessions) + 1, {Len(sessions) + 1})
    /\ reqs' = [reqs EXCEPT ![r] = IdleReq]
    /\ UNCHANGED <<clock, tzOffset, gym_students, maintLastRun, stats>>

\* active_session.save() of the RFID tap that saw an active session.
SaveStep(r) ==
    /\ reqs[r].pc = "save"
    /\ LET a == reqs[r].seen
           row == CheckedOutRow(sessions[a], clock)
       IN  IF RowAccepted(row)
           THEN /\ sessions' = [sessions EXCEPT ![a] = row]
                /\ reqs' = [reqs EXCEPT ![r].pc = "stats"]
                /\ UNCHANGED last
           ELSE /\ UNCHANGED sessions
                /\ reqs' = [reqs EXCEPT ![r] = IdleReq]
                /\ last' = Outcome(reqs[r].op, reqs[r].student, "error",
                                   "server_error", NoSession, {})
    /\ UNCHANGED <<clock, tzOffset, gym_students, maintLastRun, stats>>

\* DailyGymStats.update_daily_stats(student, active_session.date)
StatsStep(r) ==
    /\ reqs[r].pc = "stats"
    /\ stats' = update_daily_stats(stats, sessions, reqs[r].student,
                                   sessions[reqs[r].seen].date)
    /\ last' = Outcome(reqs[r].op, reqs[r].student, "ok", "checked_out",
                       reqs[r].seen, {reqs[r].seen})
    /\ reqs' = [reqs EXCEPT ![r] = IdleReq]
    /\ UNCHANGED <<clock, tzOffset, gym_students, maintLastRun, sessions>>

\* Handlers run for milliseconds: the clock moves on to the next instant
\* only between bursts of requests.
QuietTick ==
    /\ \A r \in Reqs : reqs[r].pc = "idle"
    /\ Tick

NextConcurrent ==
    \/ QuietTick
    \/ \E r \in Reqs, who \in Students : ReadStep(r, "check_in", who)
    \/ \E r \in Reqs, who \in Students : ReadStep(r, "rfid_tap", who)
    \/ \E r \in Reqs : CreateStep(r)
    \/ \E r \in Reqs : SaveStep(r)
    \/ \E r \in Reqs : StatsStep(r)

SpecConcurrent == Init /\ [][NextConcurrent]_vars

(***************************************************************************)
(* The maintenance routines over three calendar days: a store that holds   *)
(* stale sessions of two different dates when a routine runs.  Sessions    *)
(* are opened and closed by the RFID tap.                                  *)
(***************************************************************************)
\* Day 0 09:00:00, 20:34:32, 23:30:00; day 1 09:00:00; day 2 09:00:00.
MaintenanceInstants == {32400, 74072, 84600, 118800, 205200}

MaintenanceTick ==
    /\ \E t \in MaintenanceInstants : t > clock /\ clock' = t
    /\ last' = Outcome("tick", Unknown, "ok", "", NoSession, {})
    /\ UNCHANGED <<tzOffset, gym_students, maintLastRun, sessions, stats, reqs>>

NextMaintenance ==
    \/ MaintenanceTick
    \/ \E who \in Callers : RfidTap(who)
    \/ CloseStale
    \/ CapPreviousDays
    \/ DailyMaintenance

SpecMaintenance == Init /\ [][NextMaintenance]_vars

(***************************************************************************)
(* DailyGymStats.update_daily_stats on its own: it is applied to stores    *)
(* drawn from a sample of session rows and of aggregate rows.  The         *)
(* aggregate table may hold any totals before the call: the admin actions  *)
(* change sessions without recomputing, and DailyGymStats rows are         *)
(* editable in the admin.                                                  *)
(***************************************************************************)
\* <<check_in_time, check_out_time>> of the sample rows: open since day 0
\* 09:00:00; 09:00:00 to 09:32:45; 09:32:45 to 20:34:32; open since day 1
\* 09:00:00; day 1 09:00:00 to day 2 09:00:00.
SampleTimes ==
    {<<32400, NULL>>, <<32400, 34365>>, <<34365, 74072>>, <<118800, NULL>>,
     <<118800, 205200>>}

\* Rows as create() and save() leave them.
SampleRows ==
    {SavedRow([NewSession(s, t[1], DateOf(t[1])) EXCEPT !.check_out_time = t[2]]) :
        s \in Students, t \in SampleTimes}

SampleKeys == {<<s, DateOf(t[1])>> : s \in Students, t \in SampleTimes}

SampleTotals ==
    {[total_sessions |-> 1, total_minutes |-> 32],
     [total_sessions |-> 2, total_minutes |-> 693]}

InitAggregator ==
    /\ reqs = [r \in Reqs |-> IdleReq]
    /\ clock = FirstInstant
    /\ tzOffset = 0
    /\ gym_students = RegisteredStudents
    /\ maintLastRun = NeverRun
    /\ sessions \in UNION {[1..n -> SampleRows] : n \in 0..MaxSessions}
    /\ stats \in UNION {[K -> SampleTotals] : K \in SUBSET SampleKeys}
    /\ last = Outcome("init", Unknown, "ok", "", NoSession, {})

\* DailyGymStats.update_daily_stats(student, date)
UpdateDailyStats(s, d) ==
    /\ stats' = update_daily_stats(stats, sessions, s, d)
    /\ last' = Outcome("update_daily_stats", s, "ok", "", NoSession,
                       CompletedOn(sessions, s, d))
    /\ UNCHANGED <<clock, tzOffset, gym_students, maintLastRun, sessions, reqs>>

NextAggregator ==
    \E key \in SampleKeys : UpdateDailyStats(key[1], key[2])

SpecAggregator == InitAggregator /\ [][NextAggregator]_vars

(***************************************************************************)
(* admin.py: the two actions of GymSessionAdmin, run on the sessions the   *)
(* administrator selected in the change list.  Neither action recomputes   *)
(* an aggregate row.                                                       *)
(***************************************************************************)
\* mark_as_completed: for each selected active session,
\* check_out_time = now and save().
mark_as_completed(ss, sel, now) ==
    [i \in DOMAIN ss |->
        IF i \in sel /\ ss[i].is_active THEN CheckedOutRow(ss[i], now)
        ELSE ss[i]]

\* Variant: the action sets is_active only and keeps the check-out.
mark_as_active_KeepingCheckOut(ss, sel) ==
    [i \in DOMAIN ss |->
        IF i \in sel /\ ~ss[i].is_active
        THEN [ss[i] EXCEPT !.is_active = TRUE]
        ELSE ss[i]]

\* mark_as_active: queryset.filter(is_active=False).update(...), which
\* does not go through save().
mark_as_active(ss, sel) ==
    [i \in DOMAIN ss |->
        IF i \in sel /\ ~ss[i].is_active
        THEN [ss[i] EXCEPT !.check_out_time = NULL,
                           !.is_active = TRUE,
                           !.duration_minutes = 0]
        ELSE ss[i]]

MarkAsCompleted(sel) ==
    /\ sel # {}
    /\ sessions' = mark_as_completed(sessions, sel, clock)
    /\ last' = Outcome("mark_as_completed", Unknown, "ok", "", NoSession,
                       {i \in sel : sessions[i].is_active})
    /\ UNCHANGED <<clock, tzOffset, gym_students, maintLastRun, stats, reqs>>

MarkAsActive(sel) ==
    /\ sel # {}
    /\ sessions' = mark_as_active(sessions, sel)
    /\ last' = Outcome("mark_as_active", Unknown, "ok", "", NoSession,
                       {i \in sel : ~sessions[i].is_active})
    /\ UNCHANGED <<clock, tzOffset, gym_students, maintLastRun, stats, reqs>>

\* Day 0 09:00:00 and 11:32:45, day 1 09:00:00.
AdminInstants == {32400, 41565, 118800}

AdminTick ==
    /\ \E t \in AdminInstants : t > clock /\ clock' = t
    /\ last' = Outcome("tick", Unknown, "ok", "", NoSession, {})
    /\ UNCHANGED <<tzOffset, gym_students, maintLastRun, sessions, stats, reqs>>

NextAdmin ==
    \/ AdminTick
    \/ \E who \in Callers : CheckIn(who) /\ Len(sessions') <= MaxAdminSessions
    \/ \E who \in Callers : CheckOut(who)
    \/ \E who \in Callers : RfidTap(who) /\ Len(sessions') <= MaxAdminSessions
    \/ CloseStale
    \/ CapPreviousDays
    \/ DailyMaintenance
    \/ \E sel \in SUBSET Ids(sessions) : MarkAsCompleted(sel)
    \/ \E sel \in SUBSET Ids(sessions) : MarkAsActive(sel)

SpecAdmin == Init /\ [][NextAdmin]_vars

(***************************************************************************)
(* Registration: StudentRegistrationSerializer and                         *)
(* StudentRegistrationView.post, on a table that starts empty.             *)
(***************************************************************************)
\* rfid = NULL in gym_students (the request carried no rfid key).
NullRfid == "<null>"
\* The request body has no rfid key.
AbsentRfid == "<absent>"

\* student_id values of the requests, with the pattern class id_score gives
\* each (merge_duplicates.py): 0 for 202d-(140|040)ddd, 1 for any other
\* 20dd-dddddd, 2 for anything else, 3 for the empty string.
SampleIds == {"2024-140002", "2022-040003", "2023-000001", "23-1", ""}
id_score(sid) ==
    IF sid = "" THEN 3
    ELSE IF sid \in {"2024-140002", "2022-040003"} THEN 0
    ELSE IF sid = "2023-000001" THEN 1
    ELSE 2

\* validate_student_id / student_id_validator: ^20\d{2}-\d{6}$ (both of the
\* first two classes match it).
IsWellFormedId(sid) == id_score(sid) \in {0, 1}

\* rfid values of the requests and str.strip() of each.
SampleRfids == {"A1", " A1 ", "B2", "   ", "", AbsentRfid}
Strip(v) ==
    IF v = " A1 " THEN "A1"
    ELSE IF v = "   " THEN ""
    ELSE v

\* Student.objects.filter(rfid=value).exists()
RfidExists(tbl, value) == \E i \in DOMAIN tbl : tbl[i].rfid = value

\* Student.objects.filter(student_id=value).exists()
StudentIdExists(tbl, value) == \E i \in DOMAIN tbl : tbl[i].student_id = value

\* serializer.is_valid(): the first error found, "" when the data is valid.
\* validate_rfid is not called when the rfid key is absent.
RegistrationError(tbl, sid, rfidIn) ==
    IF ~IsWellFormedId(sid) THEN "student_id_format"
    ELSE IF rfidIn # AbsentRfid /\ Strip(rfidIn) = "" THEN "rfid_required"
    ELSE IF rfidIn # AbsentRfid /\ RfidExists(tbl, Strip(rfidIn))
         THEN "rfid_taken"
    ELSE IF StudentIdExists(tbl, sid) THEN "student_id_taken"
    ELSE ""

\* unique=True on student_id and on rfid: the INSERT is refused when the
\* value is held by another row (NULL never conflicts).
UniqueViolation(tbl, row) ==
    \/ StudentIdExists(tbl, row.student_id)
    \/ row.rfid # NullRfid /\ RfidExists(tbl, row.rfid)

\* The row serializer.save() inserts.
RegisteredRow(tbl, sid, rfidIn, now) ==
    StudentRow(Len(tbl) + 1, sid,
               IF rfidIn = AbsentRfid THEN NullRfid ELSE Strip(rfidIn), now)

\* Variant: registration never compares the rfid with the stored ones (the
\* column is not unique and validate_rfid only checks for an empty value).
Register_RfidNotCompared(sid, rfidIn) ==
    /\ IF \/ ~IsWellFormedId(sid)
          \/ rfidIn # AbsentRfid /\ Strip(rfidIn) = ""
          \/ StudentIdExists(gym_students, sid)
       THEN /\ UNCHANGED gym_students
            /\ last' = Outcome("register", sid, "error", "invalid", NoSession, {})
       ELSE /\ Len(gym_students) < MaxStudents
            /\ gym_students' = Append(gym_students,
                   RegisteredRow(gym_students, sid, rfidIn, clock))
            /\ last' = Outcome("register", sid, "ok", "registered", NoSession, {})
    /\ UNCHANGED <<clock, tzOffset, sessions, stats, reqs, maintLastRun>>

\* POST /students/register
Register(sid, rfidIn) ==
    /\ LET err == RegistrationError(gym_students, sid, rfidIn)
           row == RegisteredRow(gym_students, sid, rfidIn, clock)
       IN  IF err # ""
           THEN /\ UNCHANGED gym_students
                /\ last' = Outcome("register", sid, "error", err, NoSession, {})
           ELSE IF UniqueViolation(gym_students, row)
           THEN /\ UNCHANGED gym_students
                /\ last' = Outcome("register", sid, "error", "integrity_error",
                                   NoSession, {})
           ELSE /\ Len(gym_students) < MaxStudents
                /\ gym_students' = Append(gym_students, row)
                /\ last' = Outcome("register", sid, "ok", "registered",
                                   NoSession, {})
    /\ UNCHANGED <<clock, tzOffset, sessions, stats, reqs, maintLastRun>>

InitRegistration ==
    /\ reqs = [r \in Reqs |-> IdleReq]
    /\ clock = FirstInstant
    /\ tzOffset = 0
    /\ gym_students = << >>
    /\ maintLastRun = NeverRun
    /\ sessions = << >>
    /\ stats = NoStats
    /\ last = Outcome("init", Unknown, "ok", "", NoSession, {})

NextRegistration ==
    \E sid \in SampleIds, rfidIn \in SampleRfids : Register(sid, rfidIn)

SpecRegistration == InitRegistration /\ [][NextRegistration]_vars

(***************************************************************************)
(* manage.py cap_session_durations, run without --dry-run and without      *)
(* --since: every session, in the order of check_in_time, inside one       *)
(* transaction.atomic() block.  A session without a check-out is measured  *)
(* up to the current time.                                                 *)
(***************************************************************************)
\* duration = actual_checkout - session.check_in_time
CommandDuration(row, now) ==
    (IF row.check_out_time # NULL THEN row.check_out_time ELSE now)
        - row.check_in_time

\* Variant: a session of exactly two hours is capped as well.
ExceedsMaxDuration_Inclusive(row, now) ==
    CommandDuration(row, now) >= MaxDuration

\* not (duration <= max_duration)
ExceedsMaxDuration(row, now) == CommandDuration(row, now) > MaxDuration

\* The branch for a completed session whose stored duration_minutes is not
\* the whole minutes of its times.
NeedsDurationFix(row, now) ==
    /\ row.check_out_time # NULL
    /\ row.duration_minutes # TruncDiv(CommandDuration(row, now), SecondsPerMinute)

DurationFixedRow(row, now) ==
    SavedRow([row EXCEPT !.duration_minutes =
                             TruncDiv(CommandDuration(row, now), SecondsPerMinute),
                         !.is_active = FALSE])

\* session.save() without a recomputation of the aggregate row.
WriteRowOnly(run, i, row) ==
    IF RowAccepted(row)
    THEN [run EXCEPT !.sessions = [run.sessions EXCEPT ![i] = row],
                     !.touched = run.touched \cup {i}]
    ELSE [run EXCEPT !.ok = FALSE]

RECURSIVE CapDurationsLoop(_, _, _)
CapDurationsLoop(run, q, now) ==
    IF q = << >> \/ ~run.ok THEN run
    ELSE LET i == Head(q)
             row == run.sessions[i]
         IN  CapDurationsLoop(
                 IF ~ExceedsMaxDuration(row, now)
                 THEN IF NeedsDurationFix(row, now)
                      THEN WriteRowOnly(run, i, DurationFixedRow(row, now))
                      ELSE run
                 ELSE WriteRow(run, i, CappedRow(row)),
                 Tail(q), now)

cap_session_durations(ss, st, now) ==
    RolledBack(ss, st,
        CapDurationsLoop(StartRun(ss, st), ByCheckIn(ss, Ids(ss)), now))

\* manage.py cap_session_durations
CapSessionDurations ==
    /\ Finish("cap_session_durations",
              cap_session_durations(sessions, stats, clock))
    /\ UNCHANGED <<clock, tzOffset, gym_students, maintLastRun, reqs>>

\* Day 0 09:00:00, 11:00:00 and 13:00:00 (two hours apart), 20:34:32;
\* day 1 09:00:00.
CommandInstants == {32400, 39600, 46800, 74072, 118800}

CommandTick ==
    /\ \E t \in CommandInstants : t > clock /\ clock' = t
    /\ last' = Outcome("tick", Unknown, "ok", "", NoSession, {})
    /\ UNCHANGED <<tzOffset, gym_students, maintLastRun, sessions, stats, reqs>>

NextCommand ==
    \/ CommandTick
    \/ \E who \in Callers : RfidTap(who)
    \/ CapSessionDurations

SpecCommand == Init /\ [][NextCommand]_vars

(***************************************************************************)
(* The RFID tap next to a maintenance run.  The tap runs outside any       *)
(* transaction: its save() and the queries of update_daily_stats are       *)
(* separate autocommitted statements.  The maintenance run is taken as one *)
(* step, its transaction.atomic() blocks serialised by the database.       *)
(***************************************************************************)
\* update_daily_stats, its reads: sessions.count() and the sum over the
\* queryset give the totals the handler then holds.
StatsReadStep(r) ==
    /\ reqs[r].pc = "stats"
    /\ LET s == reqs[r].student
           d == sessions[reqs[r].seen].date
       IN  reqs' = [reqs EXCEPT ![r] =
                       [pc |-> "stats_write", op |-> reqs[r].op,
                        student |-> s, seen |-> reqs[r].seen,
                        key |-> <<s, d>>,
                        totals |-> update_daily_stats(stats, sessions, s, d)[<<s, d>>]]]
    /\ UNCHANGED <<clock, tzOffset, gym_students, maintLastRun, sessions,
                   stats, last>>

\* update_daily_stats, its write: update_or_create with the totals read.
StatsWriteStep(r) ==
    /\ reqs[r].pc = "stats_write"
    /\ stats' = [k \in DOMAIN stats \cup {reqs[r].key} |->
                    IF k = reqs[r].key THEN reqs[r].totals ELSE stats[k]]
    /\ last' = Outcome(reqs[r].op, reqs[r].student, "ok", "checked_out",
                       reqs[r].seen, {reqs[r].seen})
    /\ reqs' = [reqs EXCEPT ![r] = IdleReq]
    /\ UNCHANGED <<clock, tzOffset, gym_students, maintLastRun, sessions>>

\* Day 0 09:00:00, day 1 09:00:00, day 2 09:00:00.
RaceInstants == {32400, 118800, 205200}

\* The clock moves on only between bursts of requests.
RaceTick ==
    /\ \A r \in Reqs : reqs[r].pc = "idle"
    /\ \E t \in RaceInstants : t > clock /\ clock' = t
    /\ last' = Outcome("tick", Unknown, "ok", "", NoSession, {})
    /\ UNCHANGED <<tzOffset, gym_students, maintLastRun, sessions, stats, reqs>>

NextRace ==
    \/ RaceTick
    \/ \E r \in Reqs, who \in Students : ReadStep(r, "rfid_tap", who)
    \/ \E r \in Reqs : CreateStep(r)
    \/ \E r \in Reqs : SaveStep(r)
    \/ \E r \in Reqs : StatsReadStep(r)
    \/ \E r \in Reqs : StatsWriteStep(r)
    \/ DailyMaintenance

SpecRace == Init /\ [][NextRace]_vars

(***************************************************************************)
(* Check-ins around midnight.  GymCheckInOutView.post reads the clock once *)
(* (now = timezone.now()) and uses it for check_in_time and for date.      *)
(* StudentLoginView.post calls timezone.now() twice, first for             *)
(* check_in_time and then for date; RfidTap above is the case in which     *)
(* both calls fall on the same instant, RfidTapTwoReads lets the clock     *)
(* move on between them.                                                   *)
(***************************************************************************)
\* Day 0 09:00:00 and 23:59:59, day 1 00:00:00 and 09:00:00.
MidnightInstants == {32400, 86399, 86400, 118800}

MidnightTick ==
    /\ \E t \in MidnightInstants : t > clock /\ clock' = t
    /\ last' = Outcome("tick", Unknown, "ok", "", NoSession, {})
    /\ UNCHANGED <<tzOffset, gym_students, maintLastRun, sessions, stats, reqs>>

\* The longest time, in seconds, between the two clock reads of one tap.
TapLatency == 1

\* create(student, check_in_time=timezone.now(), date=timezone.now().date())
RfidTapTwoReads(who) ==
    /\ who \in Students
    /\ \E a \in PickActive(sessions, who) :
          IF a # NoSession
          THEN DoCheckOut("rfid_tap", who, a) /\ UNCHANGED clock
          ELSE IF ~can_check_in(sessions, who, DateOf(clock))[1]
               THEN Reject("rfid_tap", who, "daily_limit") /\ UNCHANGED clock
               ELSE \E t2 \in MidnightInstants :
                       /\ t2 >= clock
                       /\ t2 - clock <= TapLatency
                       /\ DoCheckIn("rfid_tap", who, clock, DateOf(t2))
                       /\ clock' = t2
    /\ UNCHANGED <<tzOffset, gym_students, maintLastRun, reqs>>

NextMidnight ==
    \/ MidnightTick
    \/ \E who \in Callers : CheckIn(who)
    \/ \E who \in Callers : CheckOut(who)
    \/ \E who \in Students : RfidTapTwoReads(who)

SpecMidnight == Init /\ [][NextMidnight]_vars

(***************************************************************************)
(* apps.py: GymAppConfig.ready(), called again within the same process.    *)
(* maintLastRun is the environment entry GYMLOG_MAINT_LAST_RUN, a date or  *)
(* NeverRun when it is not set.  RUN_STARTUP_MAINTENANCE has its default,  *)
(* True.                                                                   *)
(***************************************************************************)
\* datetime.date.today(): the date in the process's time zone.
LocalDate(t) == (t + tzOffset) \div SecondsPerDay

\* Variant: the flag is set whether or not the run raised.
Ready_FlagAlways ==
    LET today == LocalDate(clock)
    IN  /\ IF maintLastRun = today
           THEN /\ UNCHANGED <<sessions, stats, maintLastRun>>
                /\ last' = Outcome("ready", Unknown, "ok", "skipped",
                                   NoSession, {})
           ELSE LET run == run_daily_maintenance(sessions, stats, DateOf(clock))
                IN  /\ Finish("ready", run)
                    /\ maintLastRun' = today
        /\ UNCHANGED <<clock, tzOffset, gym_students, reqs>>

\* GymAppConfig.ready()
Ready ==
    LET today == LocalDate(clock)
    IN  /\ IF maintLastRun = today
           THEN /\ UNCHANGED <<sessions, stats, maintLastRun>>
                /\ last' = Outcome("ready", Unknown, "ok", "skipped",
                                   NoSession, {})
           ELSE LET run == run_daily_maintenance(sessions, stats, DateOf(clock))
                IN  /\ Finish("ready", run)
                    /\ maintLastRun' = IF run.ok THEN today ELSE maintLastRun
        /\ UNCHANGED <<clock, tzOffset, gym_students, reqs>>

NextStartup ==
    \/ MaintenanceTick
    \/ \E who \in Callers : RfidTap(who)
    \/ Ready

SpecStartup == Init /\ [][NextStartup]_vars

(***************************************************************************)
(* OLD_LOGS/merge_duplicates.py: choose_primary, applied to lists of       *)
(* student records drawn from a sample.  A registration_date is a day      *)
(* number, NULL when the column is empty: the empty string the key puts    *)
(* in its place sorts before every date.                                   *)
(***************************************************************************)
SampleRegistrationDates == {NULL, 10, 20}

SampleDuplicates ==
    {[student_id |-> sid, rfid |-> rf, registration_date |-> reg] :
        sid \in {"2024-140002", "2023-000001", "23-1", ""},
        rf \in {"A1", "", NullRfid},
        reg \in SampleRegistrationDates}

\* 0 if r["rfid"] else 1: NULL and the empty string both count as no RFID.
RfidRank(r) == IF r.rfid \in {NullRfid, ""} THEN 1 ELSE 0

\* key(r): id_score, RFID rank, registration_date, id.
PrimaryKey(r) == <<id_score(r.student_id), RfidRank(r), r.registration_date, r.id>>

\* Tuple comparison as sorted() does it.
RECURSIVE KeyBefore(_, _)
KeyBefore(a, b) ==
    IF a = << >> THEN FALSE
    ELSE \/ Head(a) < Head(b)
         \/ Head(a) = Head(b) /\ KeyBefore(Tail(a), Tail(b))

\* sorted(rows, key=key)[0]
choose_primary(rows) ==
    rows[CHOOSE i \in DOMAIN rows :
            \A j \in DOMAIN rows \ {i} :
                KeyBefore(PrimaryKey(rows[i]), PrimaryKey(rows[j]))]

InitDuplicates ==
    /\ reqs = [r \in Reqs |-> IdleReq]
    /\ clock = FirstInstant
    /\ tzOffset = 0
    /\ maintLastRun = NeverRun
    /\ sessions = << >>
    /\ stats = NoStats
    /\ \E n \in 1..MaxStudents : \E picks \in [1..n -> SampleDuplicates] :
          gym_students = [i \in 1..n |->
                             StudentRow(i, picks[i].student_id, picks[i].rfid,
                                        picks[i].registration_date)]
    /\ last = Outcome("init", Unknown, "ok", "", NoSession, {})

\* primary = choose_primary(rows)
ChoosePrimary ==
    /\ LET primary == choose_primary(gym_students)
       IN  last' = Outcome("choose_primary", primary.student_id, "ok", "",
                           primary.id, {primary.id})
    /\ UNCHANGED <<clock, tzOffset, gym_students, maintLastRun, sessions,
                   stats, reqs>>

NextDuplicates == ChoosePrimary

SpecDuplicates == InitDuplicates /\ [][NextDuplicates]_vars

(***************************************************************************)
(* Properties.                                                             *)
(***************************************************************************)
Days == {DateOf(t) : t \in Instants}

\* The rows of student s that are marked active, read off the table.
OpenRowsOf(ss, s) == {i \in DOMAIN ss : ss[i].student = s /\ ss[i].is_active}

\* The rows of student s dated d that have a check-out, read off the table.
ClosedRowsOf(ss, s, d) ==
    {i \in DOMAIN ss : /\ ss[i].student = s
                       /\ ss[i].date = d
                       /\ ss[i].check_out_time # NULL}

\* The aggregate row of (s, d) equals the recomputation from the sessions.
AggregateMatches(st, ss, s, d) ==
    /\ <<s, d>> \in DOMAIN st
    /\ st[<<s, d>>].total_sessions = Cardinality(ClosedRowsOf(ss, s, d))
    /\ st[<<s, d>>].total_minutes = SumDuration(ss, ClosedRowsOf(ss, s, d))

\* C1: after any sequence of check-in, check-out, RFID-tap, stale-close and
\* capper operations from the empty store, every student has at most one
\* session with is_active = true.
C1_AtMostOneActive ==
    \A s \in Students : Cardinality(OpenRowsOf(sessions, s)) <= 1

\* C1 witness: a second session of a student was opened after their first
\* one was closed, so exactly one of their two sessions is active.
C1_Witness ==
    /\ last.op \in {"check_in", "rfid_tap"}
    /\ last.detail = "checked_in"
    /\ Len(sessions) = 2
    /\ sessions[1].student = last.student
    /\ sessions[2].student = last.student
    /\ Cardinality(OpenRowsOf(sessions, last.student)) = 1

\* C2: after every operation, for every (student, date): an existing
\* DailyGymStats row holds the sum of duration_minutes and the count of the
\* student's sessions of that date that have a check-out; where no row
\* exists the student has no completed session on that date.
C2_AggregatesConsistent ==
    \A s \in Students, d \in Days :
        IF <<s, d>> \in DOMAIN stats
        THEN AggregateMatches(stats, sessions, s, d)
        ELSE ClosedRowsOf(sessions, s, d) = {}

\* C2 witness: a check-out has just produced an aggregate of two completed
\* sessions of one student on one date.
C2_Witness ==
    /\ last.detail = "checked_out"
    /\ \E s \in Students, d \in Days :
          /\ <<s, d>> \in DOMAIN stats
          /\ stats[<<s, d>>].total_sessions = 2
          /\ stats[<<s, d>>].total_minutes > 0

\* C3: a check-in (endpoint or RFID tap) creates a new active session if
\* and only if the student has no active session and the duration_minutes
\* of the student's completed sessions dated today sum to less than 120;
\* open sessions and sessions of other days do not enter the sum.
C3_CheckInDecision ==
    [][\A s \in Students :
          (last'.op \in {"check_in", "rfid_tap"} /\ last'.student = s)
          => LET created ==
                     /\ Len(sessions') = Len(sessions) + 1
                     /\ sessions'[Len(sessions')] =
                            [student |-> s, check_in_time |-> clock,
                             check_out_time |-> NULL, duration_minutes |-> 0,
                             date |-> DateOf(clock), is_active |-> TRUE]
                 allowed ==
                     /\ OpenRowsOf(sessions, s) = {}
                     /\ SumDuration(sessions,
                            ClosedRowsOf(sessions, s, DateOf(clock))) < 120
             IN  created <=> allowed]_vars

\* C3 witness: a check-in was accepted for a student who already has a
\* completed session today (under 120 minutes) .
C3_Witness ==
    /\ last.op \in {"check_in", "rfid_tap"}
    /\ last.detail = "checked_in"
    /\ \E i \in ClosedRowsOf(sessions, last.student, DateOf(clock)) :
          sessions[i].duration_minutes > 0

\* C4: a check_in request of a student who has an active session is
\* rejected with an error, creates no session and leaves the active session
\* open and unchanged.
C4_CheckInWhileActiveRejected ==
    [][\A s \in Students :
          (/\ last'.op = "check_in"
           /\ last'.student = s
           /\ OpenRowsOf(sessions, s) # {})
          => /\ last'.status = "error"
             /\ sessions' = sessions
             /\ stats' = stats]_vars

\* C4 witness: a check_in was refused because the student is checked in.
C4_Witness ==
    /\ last.op = "check_in"
    /\ last.status = "error"
    /\ last.detail = "already_checked_in"
    /\ OpenRowsOf(sessions, last.student) # {}

\* C5: a check_out request of a student who has no active session is
\* rejected with an error and changes no session and no aggregate row.
C5_CheckOutWhileIdleRejected ==
    [][\A s \in Students :
          (/\ last'.op = "check_out"
           /\ last'.student = s
           /\ OpenRowsOf(sessions, s) = {})
          => /\ last'.status = "error"
             /\ sessions' = sessions
             /\ stats' = stats]_vars

\* C5 witness: a check_out was refused for a student who has a completed
\* session but no active one.
C5_Witness ==
    /\ last.op = "check_out"
    /\ last.status = "error"
    /\ last.detail = "not_checked_in"
    /\ OpenRowsOf(sessions, last.student) = {}
    /\ \E i \in DOMAIN sessions : sessions[i].student = last.student

\* C6: a successful check-out (endpoint or RFID tap) of an active session
\* sets check_out_time to the current time, duration_minutes to the whole
\* minutes of check_out_time - check_in_time rounded down and is_active to
\* false, leaves check_in_time and date (and every other session) unchanged
\* and recomputes the aggregate of (student, session.date).
C6_CheckOutEffect ==
    [][(last'.op \in {"check_out", "rfid_tap"} /\ last'.detail = "checked_out")
       => LET i == last'.sid
          IN  /\ i \in OpenRowsOf(sessions, last'.student)
              /\ DOMAIN sessions' = DOMAIN sessions
              /\ \A j \in DOMAIN sessions : j # i => sessions'[j] = sessions[j]
              /\ sessions'[i] =
                    [student |-> sessions[i].student,
                     check_in_time |-> sessions[i].check_in_time,
                     check_out_time |-> clock,
                     duration_minutes |->
                         (clock - sessions[i].check_in_time) \div 60,
                     date |-> sessions[i].date,
                     is_active |-> FALSE]
              /\ AggregateMatches(stats', sessions', sessions[i].student,
                                  sessions[i].date)]_vars

\* C6 witness: a check-out stored a duration that is not a whole number of
\* minutes (32 min 45 s, stored as 32).
C6_Witness ==
    /\ last.detail = "checked_out"
    /\ last.sid \in DOMAIN sessions
    /\ LET row == sessions[last.sid]
       IN  /\ row.check_out_time = clock
           /\ (row.check_out_time - row.check_in_time) % 60 # 0
           /\ row.duration_minutes = 32

CapperRan == last.op \in {"cap_previous_days", "daily_maintenance"} /\ last.status = "ok"

\* C8 as stated: after the maintenance capper completes, every session in
\* the store that has a check-out has duration_minutes <= 120.
C8_AllCappedAfterCapper ==
    CapperRan
    => \A i \in DOMAIN sessions :
          sessions[i].check_out_time # NULL => sessions[i].duration_minutes <= 120

\* C8 amended: after the maintenance capper completes, every session dated
\* before today that has a check-out has duration_minutes <= 120 (sessions
\* dated today are not examined).
C8_PreviousDaysCappedAfterCapper ==
    CapperRan
    => \A i \in DOMAIN sessions :
          (sessions[i].check_out_time # NULL /\ sessions[i].date < DateOf(clock))
          => sessions[i].duration_minutes <= 120

\* C8 witness: the maintenance run capped a completed session of a previous
\* day to 120 minutes.
C8_Witness ==
    /\ last.op = "daily_maintenance"
    /\ last.status = "ok"
    /\ \E i \in last.touched :
          /\ sessions[i].date < DateOf(clock)
          /\ sessions[i].check_out_time = sessions[i].check_in_time + 7200
          /\ sessions[i].duration_minutes = 120

\* C9: for every session examined by the capper (dated before today) whose
\* check_out_time - check_in_time exceeds 120 minutes, the capper sets
\* check_out_time to check_in_time + 120 minutes, duration_minutes to 120
\* and is_active to false, leaves check_in_time unchanged and recomputes the
\* aggregate of (student, date); check-in 09:32:45 with check-out 20:34:32
\* ends with check-out 11:32:45 and duration 120.
C9_CapperEffect ==
    [][(last'.op \in {"cap_previous_days", "daily_maintenance"}
        /\ last'.status = "ok")
       => \A i \in DOMAIN sessions :
             (/\ sessions[i].date < DateOf(clock)
              /\ sessions[i].check_out_time # NULL
              /\ sessions[i].check_out_time - sessions[i].check_in_time > 7200)
             => /\ sessions'[i] =
                      [student |-> sessions[i].student,
                       check_in_time |-> sessions[i].check_in_time,
                       check_out_time |-> sessions[i].check_in_time + 7200,
                       duration_minutes |-> 120,
                       date |-> sessions[i].date,
                       is_active |-> FALSE]
                /\ AggregateMatches(stats', sessions', sessions[i].student,
                                    sessions[i].date)
                /\ (sessions[i].check_in_time = 34365
                    /\ sessions[i].check_out_time = 74072)
                   => (sessions'[i].check_out_time = 41565
                       /\ sessions'[i].duration_minutes = 120)]_vars

\* C9 witness: the capper has rewritten a session checked in at 09:32:45 to
\* check-out 11:32:45 and 120 minutes, and its aggregate counts 120 minutes.
C9_Witness ==
    /\ last.op = "cap_previous_days"
    /\ \E i \in last.touched :
          /\ sessions[i].check_in_time = 34365
          /\ sessions[i].check_out_time = 41565
          /\ sessions[i].duration_minutes = 120
          /\ stats[<<sessions[i].student, sessions[i].date>>].total_minutes = 120

\* C10 as stated: for every session that is active, has no check-out and is
\* dated before today, stale-close sets check_out_time to the smaller of
\* check_in_time + 120 minutes and 23:59:59 of the session's date, sets
\* duration_minutes to the whole minutes between check-in and that
\* check-out, and sets is_active to false.
C10_StaleCloseEffect ==
    [][(last'.op = "close_stale")
       => \A i \in DOMAIN sessions :
             (/\ sessions[i].is_active
              /\ sessions[i].check_out_time = NULL
              /\ sessions[i].date < DateOf(clock))
             => LET eod == sessions[i].date * 86400 + 86399 - tzOffset
                    out == IF sessions[i].check_in_time + 7200 <= eod
                           THEN sessions[i].check_in_time + 7200 ELSE eod
                IN  /\ sessions'[i].check_out_time = out
                    /\ sessions'[i].duration_minutes =
                           (out - sessions[i].check_in_time) \div 60
                    /\ ~sessions'[i].is_active]_vars

\* C7 as stated: when two check-in requests (or two RFID taps) of one
\* student are processed concurrently, at most one active session exists for
\* that student once both have finished.
C7_NoDoubleCheckIn ==
    (\A r \in Reqs : reqs[r].pc = "idle")
    => \A s \in Students : Cardinality(OpenRowsOf(sessions, s)) <= 1

\* C11 as stated: no session stored by stale-close or by the capper has a
\* negative duration_minutes, and a stale session whose
\* min(check_in_time + 120 minutes, end of its date) is earlier than its
\* check_in_time is persisted by stale-close with a check-out and
\* duration_minutes = 0.
C11_StaleCloseClampsToZero ==
    [][(last'.op = "close_stale")
       => /\ \A i \in last'.touched : sessions'[i].duration_minutes >= 0
          /\ \A i \in DOMAIN sessions :
                (/\ sessions[i].is_active
                 /\ sessions[i].check_out_time = NULL
                 /\ sessions[i].date < DateOf(clock)
                 /\ LET eod == sessions[i].date * 86400 + 86399 - tzOffset
                    IN  \/ sessions[i].check_in_time + 7200 < sessions[i].check_in_time
                        \/ eod < sessions[i].check_in_time)
                => /\ sessions'[i].check_out_time # NULL
                   /\ sessions'[i].duration_minutes = 0]_vars

\* C12 as stated: a second run of close_stale_sessions_before_today right
\* after the first, at the same current date, changes no session and no
\* aggregate row and reports zero closed sessions.
C12_StaleCloseIdempotent ==
    (last.op = "close_stale")
    => LET again == close_stale_sessions_before_today(sessions, stats,
                                                      DateOf(clock))
       IN  /\ again.sessions = sessions
           /\ again.stats = stats
           /\ again.ok
           /\ Cardinality(again.touched) = 0

\* C13: after run_daily_maintenance completes successfully, no session
\* dated before today is still active with no check-out.
C13_NoStaleAfterMaintenance ==
    (last.op = "daily_maintenance" /\ last.status = "ok")
    => \A i \in DOMAIN sessions :
          ~(/\ sessions[i].date < DateOf(clock)
            /\ sessions[i].is_active
            /\ sessions[i].check_out_time = NULL)

\* C13 witness: a successful maintenance run closed a session that was open
\* less than two hours before the end of its day, at 23:59:59 of that day:
\* the stale-close pass closed it, the capper would have passed it over.
C13_Witness ==
    /\ last.op = "daily_maintenance"
    /\ last.status = "ok"
    /\ \E i \in last.touched :
          /\ sessions[i].date < DateOf(clock)
          /\ sessions[i].check_out_time =
                 sessions[i].date * 86400 + 86399 - tzOffset
          /\ sessions[i].check_out_time - sessions[i].check_in_time < 7200
          /\ ~sessions[i].is_active

MaintenanceDays == {DateOf(t) : t \in MaintenanceInstants}

\* Session i is active, has no check-out and is dated before today.
IsStale(ss, i, today) ==
    /\ ss[i].is_active
    /\ ss[i].check_out_time = NULL
    /\ ss[i].date < today

\* C14: stale-close changes only sessions that are active, have no check-out
\* and are dated strictly before today: every session dated today, every
\* session that already has a check-out, and every aggregate row of a
\* (student, date) pair with no such session are left unchanged.
C14_StaleCloseFrame ==
    [][(last'.op = "close_stale")
       => /\ DOMAIN sessions' = DOMAIN sessions
          /\ \A i \in DOMAIN sessions :
                /\ sessions[i].date = DateOf(clock) => sessions'[i] = sessions[i]
                /\ sessions[i].check_out_time # NULL => sessions'[i] = sessions[i]
                /\ ~IsStale(sessions, i, DateOf(clock)) => sessions'[i] = sessions[i]
          /\ \A s \in Students, d \in MaintenanceDays :
                (\A i \in DOMAIN sessions :
                    (sessions[i].student = s /\ sessions[i].date = d)
                    => ~IsStale(sessions, i, DateOf(clock)))
                => /\ (<<s, d>> \in DOMAIN stats') <=> (<<s, d>> \in DOMAIN stats)
                   /\ <<s, d>> \in DOMAIN stats
                      => stats'[<<s, d>>] = stats[<<s, d>>]]_vars

\* C14 witness: stale-close closed a session of a previous day while another
\* student's session, opened today, is still open and left as it was.
C14_Witness ==
    /\ last.op = "close_stale"
    /\ last.touched # {}
    /\ \E j \in DOMAIN sessions \ last.touched :
          /\ sessions[j].date = DateOf(clock)
          /\ sessions[j].is_active
          /\ sessions[j].check_out_time = NULL

\* C15: update_daily_stats(student, date) sets the aggregate row of
\* (student, date) to the count and the summed duration_minutes of exactly
\* the student's sessions on that date that have a check-out, creating the
\* row when absent and overwriting the previous totals; sessions without a
\* check-out contribute nothing, and a second call with no session change in
\* between leaves the row as after the first call.
C15_AggregatorRecomputes ==
    \A key \in SampleKeys :
        LET s == key[1]
            d == key[2]
            once == update_daily_stats(stats, sessions, s, d)
            twice == update_daily_stats(once, sessions, s, d)
            withCheckOut == {i \in DOMAIN sessions :
                                /\ sessions[i].student = s
                                /\ sessions[i].date = d
                                /\ sessions[i].check_out_time # NULL}
        IN  /\ key \in DOMAIN once
            /\ once[key].total_sessions = Cardinality(withCheckOut)
            /\ once[key].total_minutes = SumDuration(sessions, withCheckOut)
            /\ key \in DOMAIN twice
            /\ twice[key] = once[key]

\* C15 witness: update_daily_stats has run for a student who has a completed
\* session of 32 minutes and an open session on the same date; the row
\* counts one session and 32 minutes.
C15_Witness ==
    /\ last.op = "update_daily_stats"
    /\ \E i, j \in DOMAIN sessions :
          /\ sessions[i].student = last.student
          /\ sessions[j].student = last.student
          /\ sessions[i].date = sessions[j].date
          /\ sessions[i].check_out_time # NULL
          /\ sessions[i].duration_minutes = 32
          /\ sessions[j].check_out_time = NULL
          /\ last.touched = {i}
          /\ <<last.student, sessions[i].date>> \in DOMAIN stats
          /\ stats[<<last.student, sessions[i].date>>] =
                 [total_sessions |-> 1, total_minutes |-> 32]

\* C16: a second run of cap_sessions_on_previous_days_to_two_hours right
\* after the first, at the same current date, modifies zero sessions and no
\* aggregate row.
C16_CapperIdempotent ==
    (last.op = "cap_previous_days")
    => LET again == cap_sessions_on_previous_days_to_two_hours(
                        sessions, stats, DateOf(clock))
       IN  /\ again.ok
           /\ Cardinality(again.touched) = 0
           /\ again.sessions = sessions
           /\ again.stats = stats

\* C16 witness: the first run of the capper has capped a session to exactly
\* 120 minutes, and another session of a previous day is still open.
C16_Witness ==
    /\ last.op = "cap_previous_days"
    /\ \E i \in last.touched :
          /\ sessions[i].check_out_time = sessions[i].check_in_time + 7200
          /\ sessions[i].duration_minutes = 120
    /\ \E j \in DOMAIN sessions \ last.touched :
          /\ sessions[j].date < DateOf(clock)
          /\ sessions[j].check_out_time = NULL

\* C17: for any store and a fixed current date, running stale-close then
\* the capper leaves exactly the same sessions and aggregate rows as running
\* the capper then stale-close.
C17_StaleCloseAndCapperCommute ==
    LET today == DateOf(clock)
        closed == close_stale_sessions_before_today(sessions, stats, today)
        closedThenCapped ==
            cap_sessions_on_previous_days_to_two_hours(
                closed.sessions, closed.stats, today)
        capped == cap_sessions_on_previous_days_to_two_hours(
                      sessions, stats, today)
        cappedThenClosed ==
            close_stale_sessions_before_today(capped.sessions, capped.stats,
                                              today)
    IN  /\ closedThenCapped.sessions = cappedThenClosed.sessions
        /\ closedThenCapped.stats = cappedThenClosed.stats

\* C17 witness: a store in which each routine has work of its own on one
\* date: a completed session of more than two hours, which only the capper
\* changes, and another student's open session of a previous day that ends
\* less than two hours after its check-in, which only stale-close changes;
\* in either order the first ends capped at 120 minutes and the second
\* closed at 23:59:59, each with its aggregate row.
C17_Witness ==
    LET today == DateOf(clock)
        closed == close_stale_sessions_before_today(sessions, stats, today)
        capped == cap_sessions_on_previous_days_to_two_hours(
                      sessions, stats, today)
        both == close_stale_sessions_before_today(capped.sessions,
                                                  capped.stats, today)
    IN  \E i, j \in DOMAIN sessions :
          /\ sessions[i].date = sessions[j].date
          /\ sessions[i].check_out_time # NULL
          /\ sessions[j].check_out_time = NULL
          /\ closed.touched = {j}
          /\ capped.touched = {i}
          /\ both.ok
          /\ both.sessions[i].duration_minutes = 120
          /\ both.sessions[j].check_out_time =
                 sessions[j].date * 86400 + 86399 - tzOffset
          /\ both.stats[<<sessions[i].student, sessions[i].date>>] =
                 [total_sessions |-> 1, total_minutes |-> 120]
          /\ both.stats[<<sessions[j].student, sessions[j].date>>] =
                 [total_sessions |-> 1,
                  total_minutes |-> both.sessions[j].duration_minutes]

\* C18: if stale-close or the capper fails while processing some session in
\* the middle of a run, then in the persisted store every aggregate row
\* still equals the recomputation from the persisted sessions: no session
\* change of that run persists without its aggregate update, and no
\* aggregate update persists for a session change that was rolled back.
C18_FailedRunKeepsAggregates ==
    [][(/\ last'.op \in {"close_stale", "cap_previous_days", "daily_maintenance"}
        /\ last'.status = "error")
       => /\ \A s \in Students, d \in MaintenanceDays :
                IF <<s, d>> \in DOMAIN stats'
                THEN AggregateMatches(stats', sessions', s, d)
                ELSE ClosedRowsOf(sessions', s, d) = {}
          /\ \A i \in DOMAIN sessions :
                sessions'[i] # sessions[i]
                => AggregateMatches(stats', sessions', sessions[i].student,
                                    sessions[i].date)
          /\ \A key \in DOMAIN stats' :
                (key \notin DOMAIN stats \/ stats'[key] # stats[key])
                => \E i \in DOMAIN sessions :
                      /\ sessions'[i] # sessions[i]
                      /\ key = <<sessions[i].student, sessions[i].date>>]_vars

\* C18 witness: a stale-close run failed on its second session: of two stale
\* sessions the one checked in later (processed first) can be closed, the
\* other one's end of day lies a minute or more before its check-in.
C18_Witness ==
    /\ last.op = "close_stale"
    /\ last.status = "error"
    /\ \E i, j \in DOMAIN sessions :
          /\ IsStale(sessions, i, DateOf(clock))
          /\ IsStale(sessions, j, DateOf(clock))
          /\ sessions[i].check_in_time > sessions[j].check_in_time
          /\ sessions[i].date * 86400 + 86399 - tzOffset
                 >= sessions[i].check_in_time
          /\ sessions[j].date * 86400 + 86399 - tzOffset
                 <= sessions[j].check_in_time - 60

\* C19 as stated: when processing of one session fails during a maintenance
\* run, the run skips that session and continues: every other eligible
\* session is still closed or capped and its change persists, and the capper
\* still runs after a stale-close pass that hit a failing session.
C19_FailingSessionSkipped ==
    [][\A i \in DOMAIN sessions :
          LET eod == sessions[i].date * 86400 + 86399 - tzOffset
              before == sessions[i].date < DateOf(clock)
          IN  /\ (/\ last'.op \in {"close_stale", "daily_maintenance"}
                  /\ before
                  /\ sessions[i].is_active
                  /\ sessions[i].check_out_time = NULL
                  /\ eod >= sessions[i].check_in_time)
                 => /\ sessions'[i].check_out_time # NULL
                    /\ ~sessions'[i].is_active
              /\ (/\ last'.op \in {"cap_previous_days", "daily_maintenance"}
                  /\ before
                  /\ sessions[i].check_out_time # NULL
                  /\ sessions[i].check_out_time - sessions[i].check_in_time > 7200)
                 => /\ sessions'[i].check_out_time = sessions[i].check_in_time + 7200
                    /\ sessions'[i].duration_minutes = 120]_vars

\* Session i has is_active = false and a check-out.
IsClosed(ss, i) == ~ss[i].is_active /\ ss[i].check_out_time # NULL

C21_AdminActionsKeepAggregates ==
    [][(last'.op \in {"mark_as_completed", "mark_as_active"})
       => \A i \in DOMAIN sessions :
             sessions'[i] # sessions[i]
             => AggregateMatches(stats', sessions', sessions[i].student,
                                 sessions[i].date)]_vars

\* C22 as stated, on the dates a capping run examines: after any sequence of
\* check-ins and check-outs followed by a capping run, for every student and
\* every date before today the sum of duration_minutes of the student's
\* completed sessions on that date is at most 120.
C22_DailySumCapped ==
    CapperRan
    => \A s \in Students, d \in Days :
          d < DateOf(clock)
          => SumDuration(sessions, ClosedRowsOf(sessions, s, d)) <= 120

\* C23: after any sequence of registration requests, no two students share
\* a student_id and no two students share a non-null RFID; a registration
\* whose student_id or RFID is already held by another student is rejected
\* and creates no student.
C23_RegistrationUnique ==
    [][\A sid \in SampleIds, rfidIn \in SampleRfids :
          Register(sid, rfidIn)
          => LET held ==
                     \/ \E i \in DOMAIN gym_students :
                           gym_students[i].student_id = sid
                     \/ /\ rfidIn # AbsentRfid
                        /\ \E i \in DOMAIN gym_students :
                              gym_students[i].rfid = Strip(rfidIn)
             IN  /\ held => (last'.status = "error"
                             /\ gym_students' = gym_students)
                 /\ \A i, j \in DOMAIN gym_students' :
                       i # j
                       => /\ gym_students'[i].student_id #
                                 gym_students'[j].student_id
                          /\ gym_students'[i].rfid # "<null>"
                             => gym_students'[i].rfid # gym_students'[j].rfid]_vars

\* C23 witness: two students are registered, and the last request, which
\* carried a new student_id and an RFID one of them holds, was rejected.
C23_Witness ==
    /\ last.op = "register"
    /\ last.status = "error"
    /\ last.detail = "rfid_taken"
    /\ Len(gym_students) = 2
    /\ \A i \in DOMAIN gym_students : gym_students[i].student_id # last.student

\* C24: when cap_session_durations has run (no --dry-run, no --since),
\* every session with a check-out has duration_minutes <= 120; a session
\* that had no check-out is closed at check_in_time + 120 minutes if the
\* current time is more than 120 minutes after its check-in, and is left
\* open and unchanged otherwise.
C24_CleanAllCaps ==
    [][last'.op = "cap_session_durations" =>
          /\ DOMAIN sessions' = DOMAIN sessions
          /\ \A i \in DOMAIN sessions :
                /\ sessions'[i].check_out_time # NULL
                      => sessions'[i].duration_minutes <= 120
                /\ sessions[i].check_out_time = NULL =>
                      IF clock > sessions[i].check_in_time + 120 * 60
                      THEN /\ ~sessions'[i].is_active
                           /\ sessions'[i].check_out_time =
                                  sessions[i].check_in_time + 120 * 60
                      ELSE sessions'[i] = sessions[i]]_vars

\* The command has just run on a store in which one session was open for
\* more than two hours (now closed at check-in + 2h) and another is open
\* for two hours or less (left open).
C24_Witness ==
    /\ last.op = "cap_session_durations"
    /\ last.status = "ok"
    /\ \E i \in last.touched :
          /\ sessions[i].check_out_time = sessions[i].check_in_time + MaxDuration
          /\ sessions[i].duration_minutes = 120
    /\ \E j \in DOMAIN sessions :
          /\ sessions[j].is_active
          /\ sessions[j].check_out_time = NULL
          /\ clock - sessions[j].check_in_time = MaxDuration

\* C25: an RFID tap of a student performs exactly one transition.  With an
\* active session, that session is closed and nothing is created; without
\* one and with time left today, exactly one active session is created and
\* nothing is closed; otherwise neither sessions nor aggregates change.
C25_TapOneTransition ==
    [][\A who \in Students :
          (last'.op = "rfid_tap" /\ last'.student = who) =>
             LET open == OpenRowsOf(sessions, who)
                 used == SumDuration(sessions,
                                     ClosedRowsOf(sessions, who, DateOf(clock)))
             IN  IF open # {}
                 THEN /\ Len(sessions') = Len(sessions)
                      /\ \E a \in open :
                            /\ ~sessions'[a].is_active
                            /\ sessions'[a].check_out_time = clock
                            /\ \A j \in DOMAIN sessions :
                                  j # a => sessions'[j] = sessions[j]
                 ELSE IF used < 120
                 THEN /\ Len(sessions') = Len(sessions) + 1
                      /\ sessions'[Len(sessions')].student = who
                      /\ sessions'[Len(sessions')].is_active
                      /\ \A j \in DOMAIN sessions : sessions'[j] = sessions[j]
                 ELSE sessions' = sessions /\ stats' = stats]_vars

\* A tap has just closed the student's session while the other student's
\* session stays open, and the closed session used up the day's two hours,
\* so that the student's next tap is the refused one.
C25_Witness ==
    /\ last.op = "rfid_tap"
    /\ last.detail = "checked_out"
    /\ sessions[last.sid].check_out_time = clock
    /\ sessions[last.sid].duration_minutes >= 120
    /\ \E j \in DOMAIN sessions :
          sessions[j].student # last.student /\ sessions[j].is_active

\* C26: an RFID tap has checked out a session dated before today, a
\* maintenance run may have touched the same (student, date) while the tap
\* was being processed, and no handler is running any more: the aggregate
\* row of that (student, date) equals the count and the summed duration of
\* its completed sessions.
C26_AggregateAfterRace ==
    (/\ \A r \in Reqs : reqs[r].pc = "idle"
     /\ last.op = "rfid_tap"
     /\ last.detail = "checked_out"
     /\ sessions[last.sid].date < DateOf(clock))
    => AggregateMatches(stats, sessions, last.student, sessions[last.sid].date)

\* C27: in every state reached through check-in, check-out, RFID tap,
\* maintenance and the admin actions, a session is active exactly when it
\* has no check-out, and a session with a check-out stores the whole
\* minutes between its check-in and its check-out.
C27_SessionFieldsAgree ==
    \A i \in DOMAIN sessions :
        /\ sessions[i].is_active <=> sessions[i].check_out_time = NULL
        /\ sessions[i].check_out_time # NULL =>
              sessions[i].duration_minutes =
                  TruncDiv(sessions[i].check_out_time - sessions[i].check_in_time, 60)

\* An administrator has just reopened a completed session: it is active
\* again and its check-out is gone.
C27_Witness ==
    /\ last.op = "mark_as_active"
    /\ \E i \in last.touched :
          /\ sessions[i].is_active
          /\ sessions[i].check_out_time = NULL
          /\ sessions[i].duration_minutes = 0

\* C28: every session created by a check-in (endpoint or RFID tap) has as
\* its date the calendar date of its check_in_time, also when midnight
\* passes while the request is being processed.
C28_DateIsCheckInDate ==
    \A i \in DOMAIN sessions :
        sessions[i].date = DateOf(sessions[i].check_in_time)

\* C29: within one process the startup maintenance runs at most once per
\* calendar day.  The flag changes only in a ready() call whose run
\* completed without error, and then to today; a ready() call that finds
\* the flag at today runs no maintenance; a ready() call that finds another
\* value runs it, leaving no stale session when it succeeds and leaving the
\* flag as it was when it fails, so that the next call runs it again.
C29_StartupOncePerDay ==
    [][LET today == LocalDate(clock)
       IN  /\ maintLastRun' # maintLastRun
                => /\ last'.op = "ready"
                   /\ last'.status = "ok"
                   /\ last'.detail # "skipped"
                   /\ maintLastRun' = today
           /\ last'.op = "ready" =>
                IF maintLastRun = today
                THEN /\ last'.detail = "skipped"
                     /\ sessions' = sessions
                     /\ stats' = stats
                ELSE /\ last'.detail # "skipped"
                     /\ last'.status = "ok"
                          => /\ maintLastRun' = today
                             /\ StaleSessions(sessions', DateOf(clock)) = {}
                     /\ last'.status = "error"
                          => /\ maintLastRun' = maintLastRun
                             /\ maintLastRun' # today]_vars

\* A ready() call has just failed on a day after a successful run: the
\* flag still holds the earlier date, so the next call will run again.
C29_Witness ==
    /\ last.op = "ready"
    /\ last.status = "error"
    /\ maintLastRun # NeverRun
    /\ maintLastRun < LocalDate(clock)

\* C30: choose_primary returns, of a non-empty list of duplicate records,
\* the record with the best student-ID pattern score; among those tied,
\* one that has an RFID; among those still tied, the one with the most
\* recent registration_date; among those still tied, the smallest id.
C30_PrimaryIsBestRecord ==
    last.op = "choose_primary" =>
        LET chosen == gym_students[last.sid]
        IN  \A j \in DOMAIN gym_students :
               LET r == gym_students[j]
               IN  \/ id_score(chosen.student_id) < id_score(r.student_id)
                   \/ /\ id_score(chosen.student_id) = id_score(r.student_id)
                      /\ \/ RfidRank(chosen) < RfidRank(r)
                         \/ /\ RfidRank(chosen) = RfidRank(r)
                            /\ \/ chosen.registration_date > r.registration_date
                               \/ /\ chosen.registration_date = r.registration_date
                                  /\ chosen.id <= r.id
====
